---- MODULE Spec2Model ----
(***************************************************************************)
(* Model of the CIE pseudocode runtime: the scoped Environment             *)
(* (src/cie_runtime/environment.py) and the tree-walking Evaluator         *)
(* (src/cie_runtime/evaluator.py).                                         *)
(*                                                                         *)
(* Python values are records [k, n, s]: k is the Python class of the       *)
(* value, n its number (a float is kept in halves, a bool as 0/1) and s    *)
(* its text as a sequence of code points.  An Environment is one element   *)
(* of the sequence `scopes`; the parent of scopes[i] is scopes[i-1] and    *)
(* scopes[1] has parent None.                                              *)
(***************************************************************************)
EXTENDS Integers, Sequences, FiniteSets, TLC

VARIABLES scopes,   \* the chain of Environment._store dicts, root first
          pre,      \* the chain as it was when the last operation was called
          last,     \* the last operation: its arguments and its outcome
          run,      \* the Evaluator's run: the program, the position, the outcome
          out       \* what the run has sent to output_fn, one entry per call

vars == <<scopes, pre, last, run, out>>

\* ---------------------------------------------------------------- bounds
\* the longest chain of nested scopes
MaxDepth == 2

\* ---------------------------------------------------------------- values
None == [k |-> "NoneType", n |-> 0, s |-> <<>>]
IntV(i) == [k |-> "int", n |-> i, s |-> <<>>]
BoolV(b) == [k |-> "bool", n |-> IF b THEN 1 ELSE 0, s |-> <<>>]
FloatV(halves) == [k |-> "float", n |-> halves, s |-> <<>>]
StrV(t) == [k |-> "str", n |-> 0, s |-> t]

\* texts, as code points
Txt_x == <<120>>
Txt_X == <<88>>
Txt_ab == <<97, 98>>

Names == {Txt_x, Txt_X}

Values == {None, IntV(5), BoolV(TRUE), FloatV(5), StrV(Txt_x), StrV(Txt_ab)}

\* the classes a value of class k is an instance of (bool subclasses int)
Bases(k) ==
  CASE k = "bool" -> {"bool", "int", "object"}
    [] OTHER -> {k, "object"}

isinstance(value, classes) == Bases(value.k) \cap classes # {}

\* ----------------------------------------------------------- Environment
TYPE_MAP ==
  [INTEGER |-> "int", REAL |-> "float", STRING |-> "str", BOOLEAN |-> "bool",
   CHAR |-> "str", DATE |-> "str", const |-> "object"]

DeclaredTypes == {"INTEGER", "REAL", "STRING", "BOOLEAN", "CHAR", "DATE"}

\* type names a caller may pass: the six, the constant marker, a lower-case
\* spelling and a name that is no type at all
TypeNames == DeclaredTypes \cup {"const", "integer", "ARRAY"}

_value_matches_type(value, type_name) ==
  IF type_name = "const" THEN TRUE
  ELSE IF type_name \notin DOMAIN TYPE_MAP THEN TRUE
  ELSE IF type_name = "CHAR" THEN isinstance(value, {"str"}) /\ Len(value.s) = 1
  ELSE IF type_name = "REAL" THEN isinstance(value, {"int", "float"})
  ELSE isinstance(value, {TYPE_MAP[type_name]})

_assert_valid_type_name(type_name) == type_name \in DOMAIN TYPE_MAP

\* a lookup that starts at the root and takes the outermost binding
_lookup_entry_outermost(sc, i, name) ==
  LET owners == {j \in 1..i : name \in DOMAIN sc[j]} IN
  IF owners = {} THEN 0 ELSE CHOOSE j \in owners : \A m \in owners : j <= m

\* the scope that owns the nearest binding of name seen from scope i,
\* 0 when the walk falls off the root (NameError)
RECURSIVE _lookup_entry(_, _, _)
_lookup_entry(sc, i, name) ==
  IF name \in DOMAIN sc[i] THEN i
  ELSE IF i > 1 THEN _lookup_entry(sc, i - 1, name)
  ELSE 0

Put(store, name, entry) ==
  [k \in DOMAIN store \cup {name} |-> IF k = name THEN entry ELSE store[k]]

\* the outcome of a call: the chain after it, the exception raised ("" when it
\* returned), the returned value and, for get_type, the returned type name
Raise(sc, cls, msg) ==
  [sc |-> sc, exc |-> cls, msg |-> msg, ret |-> None, rtype |-> ""]
Return(sc, value) ==
  [sc |-> sc, exc |-> "", msg |-> "", ret |-> value, rtype |-> ""]

\* a declaration that does not look for an existing binding of the name
var_decl_redeclare(sc, i, name, type_name, value) ==
  IF type_name \notin DOMAIN TYPE_MAP
  THEN Raise(sc, "ValueError", "Unsupported type")
  ELSE IF value # None /\ ~_value_matches_type(value, type_name)
  THEN Raise(sc, "TypeError", "Initial value does not match declared type")
  ELSE Return([sc EXCEPT ![i] = Put(@, name, [type |-> type_name, value |-> value])],
              None)

var_decl(sc, i, name, type_name, value) ==
  IF name \in DOMAIN sc[i]
  THEN Raise(sc, "NameError", "already declared in this scope")
  ELSE IF ~_assert_valid_type_name(type_name)
  THEN Raise(sc, "ValueError", "Unsupported type")
  ELSE IF value # None /\ ~_value_matches_type(value, type_name)
  THEN Raise(sc, "TypeError", "Initial value does not match declared type")
  ELSE Return([sc EXCEPT ![i] = Put(@, name, [type |-> type_name, value |-> value])],
              None)

const_decl(sc, i, name, value) ==
  IF name \in DOMAIN sc[i]
  THEN Raise(sc, "NameError", "already declared in this scope")
  ELSE Return([sc EXCEPT ![i] = Put(@, name, [type |-> "const", value |-> value])],
              None)

get(sc, i, name) ==
  LET j == _lookup_entry(sc, i, name) IN
  IF j = 0 THEN Raise(sc, "NameError", "is not declared")
  ELSE Return(sc, sc[j][name].value)

get_type(sc, i, name) ==
  LET j == _lookup_entry(sc, i, name) IN
  IF j = 0 THEN Raise(sc, "NameError", "is not declared")
  ELSE [Return(sc, None) EXCEPT !.rtype = sc[j][name].type]

\* an assignment that does not look at the constant marker
set_const_writable(sc, i, name, value) ==
  LET j == _lookup_entry(sc, i, name) IN
  IF j = 0 THEN Raise(sc, "NameError", "is not declared")
  ELSE IF ~_value_matches_type(value, sc[j][name].type)
  THEN Raise(sc, "TypeError", "Type mismatch")
  ELSE Return([sc EXCEPT ![j][name].value = value], None)

\* an assignment that stores whatever value it is given
set_unchecked(sc, i, name, value) ==
  LET j == _lookup_entry(sc, i, name) IN
  IF j = 0 THEN Raise(sc, "NameError", "is not declared")
  ELSE IF sc[j][name].type = "const"
  THEN Raise(sc, "TypeError", "Cannot assign to constant")
  ELSE Return([sc EXCEPT ![j][name].value = value], None)

\* an assignment that stores the value before it compares it with the type
set_store_first(sc, i, name, value) ==
  LET j == _lookup_entry(sc, i, name) IN
  IF j = 0 THEN Raise(sc, "NameError", "is not declared")
  ELSE IF sc[j][name].type = "const"
  THEN Raise(sc, "TypeError", "Cannot assign to constant")
  ELSE IF ~_value_matches_type(value, sc[j][name].type)
  THEN Raise([sc EXCEPT ![j][name].value = value], "TypeError", "Type mismatch")
  ELSE Return([sc EXCEPT ![j][name].value = value], None)

set(sc, i, name, value) ==
  LET j == _lookup_entry(sc, i, name) IN
  IF j = 0 THEN Raise(sc, "NameError", "is not declared")
  ELSE IF sc[j][name].type = "const"
  THEN Raise(sc, "TypeError", "Cannot assign to constant")
  ELSE IF ~_value_matches_type(value, sc[j][name].type)
  THEN Raise(sc, "TypeError", "Type mismatch")
  ELSE Return([sc EXCEPT ![j][name].value = value], None)

\* Environment.__contains__
contains(sc, i, name) == _lookup_entry(sc, i, name) # 0

\* -------------------------------------------------------------- Evaluator
\* str.upper() and str.lower() on the ASCII letters
Upper(t) == [p \in DOMAIN t |-> IF t[p] \in 97..122 THEN t[p] - 32 ELSE t[p]]
Lower(t) == [p \in DOMAIN t |-> IF t[p] \in 65..90 THEN t[p] + 32 ELSE t[p]]

Txt_TRUE == <<84, 82, 85, 69>>
Txt_FALSE == <<70, 65, 76, 83, 69>>
Txt_true == <<116, 114, 117, 101>>

\* the attributes an Environment object has (class Environment, lines 7-127)
EnvMethods ==
  {"__init__", "var_decl", "const_decl", "get", "get_type", "set",
   "_lookup_entry", "_assert_valid_type_name", "_value_matches_type",
   "_infer_type_name", "__contains__", "__repr__", "_TYPE_MAP", "_store",
   "parent"}

\* self.env.<method>(name, ...): Python looks the attribute up first
EnvCall(sc, i, method, name, type_name, value) ==
  IF method \notin EnvMethods
  THEN Raise(sc, "AttributeError", "'Environment' object has no attribute")
  ELSE CASE method = "var_decl" -> var_decl(sc, i, name, type_name, value)
         [] method = "const_decl" -> const_decl(sc, i, name, value)
         [] method = "set" -> set(sc, i, name, value)
         [] method = "get" -> get(sc, i, name)
         [] method = "get_type" -> get_type(sc, i, name)
         [] OTHER -> Raise(sc, "TypeError", "not called this way")

\* the Environment the Evaluator holds (self.env): the innermost scope
self_env(sc) == Len(sc)

get_value(sc, v) ==
  IF isinstance(v, {"str"})
  THEN IF Upper(v.s) = Txt_TRUE THEN Return(sc, BoolV(TRUE))
       ELSE IF Upper(v.s) = Txt_FALSE THEN Return(sc, BoolV(FALSE))
       ELSE IF contains(sc, self_env(sc), Upper(v.s))
       THEN get(sc, self_env(sc), v.s)
       ELSE Return(sc, v)
  ELSE Return(sc, v)

_resolve(sc, v) == get_value(sc, v)

\* int(token) for a token of decimal digits
RECURSIVE ParseInt(_)
ParseInt(t) ==
  IF t = <<>> THEN 0 ELSE 10 * ParseInt(SubSeq(t, 1, Len(t) - 1)) + (t[Len(t)] - 48)

INT_LITERAL(token) == IntV(ParseInt(token))
IDENT(token) == StrV(token)
BOOL_LITERAL(token) == BoolV(Lower(token) = Txt_true)
\* token[1:-1]
CHAR_LITERAL(token) == StrV(SubSeq(token, 2, Len(token) - 1))

\* token.encode("utf-8"): the bytes of a text whose code points are below 2048
RECURSIVE Utf8(_)
Utf8(t) ==
  IF t = <<>> THEN <<>>
  ELSE (IF t[1] < 128 THEN <<t[1]>>
        ELSE <<192 + (t[1] \div 64), 128 + (t[1] % 64)>>) \o Utf8(Tail(t))

\* the character a backslash escape stands for: \n \t \\ \" \'
EscapeOf(c) ==
  CASE c = 110 -> 10
    [] c = 116 -> 9
    [] OTHER -> c

\* bytes.decode("unicode_escape"): an escape becomes its character, a
\* backslash before any other character stays, every other byte becomes the
\* code point of the same number
RECURSIVE UnicodeEscape(_)
UnicodeEscape(b) ==
  IF b = <<>> THEN <<>>
  ELSE IF b[1] = 92 /\ Len(b) >= 2 /\ b[2] \in {110, 116, 92, 34, 39}
  THEN <<EscapeOf(b[2])>> \o UnicodeEscape(SubSeq(b, 3, Len(b)))
  ELSE <<b[1]>> \o UnicodeEscape(Tail(b))

STRING_LITERAL(token) ==
  StrV(UnicodeEscape(Utf8(SubSeq(token, 2, Len(token) - 1))))

\* syntax-tree nodes: a leaf carries its token, a rule node its children
Leaf(tag, token) == [tag |-> tag, token |-> token, kids |-> <<>>]
Node(tag, kids) == [tag |-> tag, token |-> <<>>, kids |-> kids]

\* the rule callbacks on already transformed children
add(sc, items) ==
  LET l == get_value(sc, items[1])
      r == get_value(sc, items[2]) IN
  IF l.exc # "" THEN l
  ELSE IF r.exc # "" THEN r
  ELSE IF l.ret.k \in {"int", "bool"} /\ r.ret.k \in {"int", "bool"}
  THEN Return(sc, IntV(l.ret.n + r.ret.n))
  ELSE IF l.ret.k = "str" /\ r.ret.k = "str"
  THEN Return(sc, StrV(l.ret.s \o r.ret.s))
  ELSE Raise(sc, "TypeError", "unsupported operand type(s) for +")

\* bool(value)
Truthy(v) ==
  CASE v.k \in {"int", "bool", "float"} -> v.n # 0
    [] v.k = "str" -> v.s # <<>>
    [] OTHER -> FALSE

or_op(sc, items) ==
  LET a == get_value(sc, items[1])
      b == get_value(sc, items[2]) IN
  IF a.exc # "" THEN a
  ELSE IF b.exc # "" THEN b
  ELSE Return(sc, IF Truthy(a.ret) THEN a.ret ELSE b.ret)

and_op(sc, items) ==
  LET a == get_value(sc, items[1])
      b == get_value(sc, items[2]) IN
  IF a.exc # "" THEN a
  ELSE IF b.exc # "" THEN b
  ELSE Return(sc, IF Truthy(a.ret) THEN b.ret ELSE a.ret)

\* the quotient rounded toward zero
TruncDiv(a, b) ==
  LET q == (IF a < 0 THEN 0 - a ELSE a) \div (IF b < 0 THEN 0 - b ELSE b) IN
  IF (a < 0) = (b < 0) THEN q ELSE 0 - q

\* a // b and a % b of Python integers, b # 0: the quotient is rounded
\* toward negative infinity, the remainder has the sign of b
FloorDiv(a, b) == IF b > 0 THEN a \div b ELSE (0 - a) \div (0 - b)
FloorMod(a, b) == IF b > 0 THEN a % b ELSE 0 - ((0 - a) % (0 - b))

IsNumber(v) == v.k \in {"int", "bool", "float"}
\* the number of v in halves
Halves(v) == IF v.k = "float" THEN v.n ELSE 2 * v.n

int_div(sc, items) ==
  LET left == get_value(sc, items[1])
      right == get_value(sc, items[2]) IN
  IF left.exc # "" THEN left
  ELSE IF right.exc # "" THEN right
  ELSE IF ~(IsNumber(left.ret) /\ IsNumber(right.ret))
  THEN Raise(sc, "TypeError", "unsupported operand type(s) for //")
  ELSE IF right.ret.n = 0
  THEN Raise(sc, "ZeroDivisionError", "division by zero")
  ELSE IF "float" \in {left.ret.k, right.ret.k}
  THEN Return(sc, FloatV(2 * FloorDiv(Halves(left.ret), Halves(right.ret))))
  ELSE Return(sc, IntV(FloorDiv(left.ret.n, right.ret.n)))

mod(sc, items) ==
  LET left == get_value(sc, items[1])
      right == get_value(sc, items[2]) IN
  IF left.exc # "" THEN left
  ELSE IF right.exc # "" THEN right
  ELSE IF ~(IsNumber(left.ret) /\ IsNumber(right.ret))
  THEN Raise(sc, "TypeError", "unsupported operand type(s) for %")
  ELSE IF right.ret.n = 0
  THEN Raise(sc, "ZeroDivisionError", "modulo by zero")
  ELSE IF "float" \in {left.ret.k, right.ret.k}
  THEN Return(sc, FloatV(FloorMod(Halves(left.ret), Halves(right.ret))))
  ELSE Return(sc, IntV(FloorMod(left.ret.n, right.ret.n)))

neg(sc, items) ==
  LET value == get_value(sc, items[1]) IN
  IF value.exc # "" THEN value
  ELSE IF value.ret.k = "float" THEN Return(sc, FloatV(0 - value.ret.n))
  ELSE IF value.ret.k \in {"int", "bool"} THEN Return(sc, IntV(0 - value.ret.n))
  ELSE Raise(sc, "TypeError", "bad operand type for unary -")

atom(sc, items) == get_value(sc, items[1])

\* a callback of two children, by its rule name
Binary(sc, tag, items) ==
  CASE tag = "add" -> add(sc, items)
    [] tag = "int_div" -> int_div(sc, items)
    [] tag = "mod" -> mod(sc, items)
    [] tag = "or_op" -> or_op(sc, items)
    [] tag = "and_op" -> and_op(sc, items)

\* Transformer.transform: children first, left to right, then the callback
RECURSIVE Eval(_, _)
Eval(sc, e) ==
  CASE e.tag = "INT_LITERAL" -> Return(sc, INT_LITERAL(e.token))
    [] e.tag = "IDENT" -> Return(sc, IDENT(e.token))
    [] e.tag = "BOOL_LITERAL" -> Return(sc, BOOL_LITERAL(e.token))
    [] e.tag = "CHAR_LITERAL" -> Return(sc, CHAR_LITERAL(e.token))
    [] e.tag = "STRING_LITERAL" -> Return(sc, STRING_LITERAL(e.token))
    [] e.tag = "atom" ->
         LET a == Eval(sc, e.kids[1]) IN
         IF a.exc # "" THEN a ELSE atom(sc, <<a.ret>>)
    [] e.tag = "neg" ->
         LET a == Eval(sc, e.kids[1]) IN
         IF a.exc # "" THEN a ELSE neg(sc, <<a.ret>>)
    [] e.tag \in {"add", "int_div", "mod", "or_op", "and_op"} ->
         LET a == Eval(sc, e.kids[1])
             b == Eval(sc, e.kids[2]) IN
         IF a.exc # "" THEN a
         ELSE IF b.exc # "" THEN b
         ELSE Binary(sc, e.tag, <<a.ret, b.ret>>)

\* the statement callbacks
Evaluator_var_decl(sc, ident, type_tok) ==
  EnvCall(sc, self_env(sc), "declare_var", ident, type_tok, None)

Evaluator_const_decl(sc, ident, value) ==
  EnvCall(sc, self_env(sc), "define_const", ident, "", value)

\* an assignment that writes the target before it resolves the value
Evaluator_assign_store_first(sc, ident, value) ==
  LET stored == set(sc, self_env(sc), ident, value)
      resolved_value == get_value(stored.sc, value) IN
  IF resolved_value.exc # "" THEN resolved_value
  ELSE EnvCall(stored.sc, self_env(sc), "set_var", ident, "", resolved_value.ret)

Evaluator_assign(sc, ident, value) ==
  LET resolved_value == get_value(sc, value) IN
  IF resolved_value.exc # "" THEN resolved_value
  ELSE EnvCall(sc, self_env(sc), "set_var", ident, "", resolved_value.ret)

\* user_value is what input_fn returned
Evaluator_input(sc, ident, user_value) ==
  EnvCall(sc, self_env(sc), "set_var", ident, "", StrV(user_value))

\* the arguments of the output_fn call, or the exception of the first item
\* that fails to resolve
Evaluator_output(sc, items) ==
  LET res == [p \in DOMAIN items |-> _resolve(sc, items[p])]
      bad == {p \in DOMAIN items : res[p].exc # ""} IN
  IF bad # {}
  THEN [r |-> res[CHOOSE p \in bad : \A q \in bad : p <= q], args |-> <<>>]
  ELSE [r |-> Return(sc, None), args |-> [p \in DOMAIN items |-> res[p].ret]]

\* ------------------------------------------------ Environment operations
NoCall == [op |-> "", scope |-> 0, name |-> <<>>, type |-> "", value |-> None,
           exc |-> "", msg |-> "", ret |-> None, rtype |-> ""]

\* a call on the Environment scopes[i], with its outcome r
Call(op, i, name, type_name, value, r) ==
  /\ pre' = scopes
  /\ scopes' = r.sc
  /\ last' = [op |-> op, scope |-> i, name |-> name, type |-> type_name,
              value |-> value, exc |-> r.exc, msg |-> r.msg, ret |-> r.ret,
              rtype |-> r.rtype]
  /\ UNCHANGED <<run, out>>

EnvVarDecl(N, T, V) ==
  \E i \in 1..Len(scopes), name \in N, t \in T, v \in V :
    Call("var_decl", i, name, t, v, var_decl(scopes, i, name, t, v))

EnvConstDecl(N, V) ==
  \E i \in 1..Len(scopes), name \in N, v \in V :
    Call("const_decl", i, name, "", v, const_decl(scopes, i, name, v))

EnvGet(N) ==
  \E i \in 1..Len(scopes), name \in N :
    Call("get", i, name, "", None, get(scopes, i, name))

EnvGetType(N) ==
  \E i \in 1..Len(scopes), name \in N :
    Call("get_type", i, name, "", None, get_type(scopes, i, name))

EnvSet(N, V) ==
  \E i \in 1..Len(scopes), name \in N, v \in V :
    Call("set", i, name, "", v, set(scopes, i, name, v))

EnvContains(N) ==
  \E i \in 1..Len(scopes), name \in N :
    Call("__contains__", i, name, "", None,
         Return(scopes, BoolV(contains(scopes, i, name))))

\* Environment(parent = innermost scope): a child scope with an empty store
NewChild ==
  /\ Len(scopes) < MaxDepth
  /\ Call("__init__", Len(scopes) + 1, <<>>, "", None,
          Return(Append(scopes, << >>), None))

\* the innermost scope goes out of use when its region exits
DiscardChild ==
  /\ Len(scopes) > 1
  /\ Call("discard", Len(scopes), <<>>, "", None,
          Return(SubSeq(scopes, 1, Len(scopes) - 1), None))

\* no run of the Evaluator yet
NoRun == [status |-> "idle", prog |-> <<>>, pc |-> 0, exc |-> "", msg |-> "",
          env0 |-> <<>>]

\* Environment(): one scope, no parent, an empty store
Init ==
  /\ scopes = << << >> >>
  /\ pre = scopes
  /\ last = NoCall
  /\ run = NoRun
  /\ out = <<>>

\* One Environment without a parent, every type name and every value shape.
Next ==
  \/ EnvVarDecl(Names, TypeNames, Values)
  \/ EnvConstDecl(Names, Values)
  \/ EnvGet(Names)
  \/ EnvGetType(Names)
  \/ EnvSet(Names, Values)
  \/ EnvContains(Names)

Spec == Init /\ [][Next]_vars

\* A chain of nested Environments over a smaller alphabet of types and values.
ScopeTypes == {"INTEGER", "STRING", "ARRAY"}
ScopeValues == {None, IntV(5), BoolV(TRUE), StrV(Txt_x)}
ScopeNames == {Txt_x}

NextScopes ==
  \/ EnvVarDecl(ScopeNames, ScopeTypes, ScopeValues)
  \/ EnvConstDecl(ScopeNames, ScopeValues)
  \/ EnvGet(ScopeNames)
  \/ EnvGetType(ScopeNames)
  \/ EnvSet(ScopeNames, ScopeValues)
  \/ EnvContains(ScopeNames)
  \/ NewChild
  \/ DiscardChild

SpecScopes == Init /\ [][NextScopes]_vars

\* ------------------------------------------------------------ Evaluator run
Txt_y == <<121>>
Txt_5 == <<53>>
Txt_12 == <<49, 50>>
Txt_maybe == <<109, 97, 121, 98, 101>>

\* statements of a program, as the parse tree gives them to the callbacks
Stmt(tag, ident, type_tok, exprs) ==
  [tag |-> tag, ident |-> ident, type |-> type_tok, exprs |-> exprs,
   body |-> <<>>]

\* the token of a text literal: the text between double quotes
Quoted(t) == <<34>> \o t \o <<34>>

IntLit == Leaf("INT_LITERAL", Txt_5)
IntLits == {IntLit, Leaf("INT_LITERAL", Txt_12)}
Exprs ==
  {IntLit, Leaf("IDENT", Txt_x), Leaf("IDENT", Txt_X), Leaf("IDENT", Txt_y),
   Node("atom", <<Leaf("IDENT", Txt_y)>>),
   Node("add", <<Leaf("IDENT", Txt_y), IntLit>>),
   Node("add", <<Leaf("IDENT", Txt_y), Leaf("IDENT", Txt_y)>>),
   Leaf("STRING_LITERAL", Quoted(Txt_TRUE)),
   Leaf("STRING_LITERAL", Quoted(Txt_X)),
   Node("atom", <<Leaf("IDENT", Txt_X)>>)}

ProgTypes == {"INTEGER", "BOOLEAN"}

Stmts ==
  {Stmt("var_decl", n, t, <<>>) : n \in Names, t \in ProgTypes}
  \cup {Stmt("const_decl", n, "", <<IntLit>>) : n \in Names}
  \cup {Stmt("assign", n, "", <<e>>) : n \in Names, e \in Exprs}
  \cup {Stmt("input", n, "", <<>>) : n \in Names}
  \cup {Stmt("output", <<>>, "", <<e>>) : e \in Exprs}

\* declare n: INTEGER; n <- lit; output n
DeclareAssignOutput(n, lit) ==
  <<Stmt("var_decl", n, "INTEGER", <<>>),
    Stmt("assign", n, "", <<lit>>),
    Stmt("output", <<>>, "", <<Leaf("IDENT", n)>>)>>

Programs ==
  {<<st>> : st \in Stmts}
  \cup {<<st, Stmt("output", <<>>, "", <<IntLit>>)>> : st \in Stmts}
  \cup {DeclareAssignOutput(n, lit) : n \in Names, lit \in IntLits}

InputTexts == {Txt_maybe, Txt_5, Txt_true}

\* what a caller puts into the Environment before it hands it to the Evaluator
SetupTypes == {"INTEGER", "BOOLEAN", "STRING"}
SetupValues == {IntV(5), BoolV(TRUE), StrV(Txt_TRUE)}

Running == run.status = "running" /\ run.pc <= Len(run.prog)
Current == run.prog[run.pc]

\* one statement callback has run with outcome r; args is what it gave to
\* output_fn (<<>> when it made no output call).  An exception of a callback
\* ends the walk: lark hands it to the caller of transform wrapped in a
\* VisitError, and run.exc keeps the class of the original exception.
Step(value, r, wrote, args) ==
  /\ pre' = scopes
  /\ scopes' = r.sc
  /\ last' = [op |-> "Evaluator." \o Current.tag, scope |-> self_env(scopes),
              name |-> Current.ident, type |-> Current.type, value |-> value,
              exc |-> r.exc, msg |-> r.msg, ret |-> r.ret, rtype |-> r.rtype]
  /\ run' = IF r.exc # ""
            THEN [run EXCEPT !.status = "raised", !.exc = r.exc, !.msg = r.msg]
            ELSE [run EXCEPT !.pc = @ + 1]
  /\ out' = IF wrote THEN Append(out, args) ELSE out

\* the statement nodes of a tree in the order the Transformer reaches them:
\* a node that has a body is followed by the statements of the body
RECURSIVE Walk(_)
Walk(p) ==
  IF p = <<>> THEN <<>>
  ELSE <<Head(p)>> \o Walk(Head(p).body) \o Walk(Tail(p))

\* run(tree, env=...): Evaluator(env).transform(tree), tree one of P
Start(P) ==
  /\ run.status = "idle"
  /\ \E p \in P :
       run' = [status |-> "running", prog |-> Walk(p), pc |-> 1, exc |-> "",
               msg |-> "", env0 |-> scopes]
  /\ UNCHANGED <<scopes, pre, last, out>>

Run == Start(Programs)

ExecVarDecl ==
  /\ Running /\ Current.tag = "var_decl"
  /\ Step(None, Evaluator_var_decl(scopes, Current.ident, Current.type),
          FALSE, <<>>)

ExecConstDecl ==
  /\ Running /\ Current.tag = "const_decl"
  /\ LET v == Eval(scopes, Current.exprs[1]) IN
     IF v.exc # "" THEN Step(None, v, FALSE, <<>>)
     ELSE Step(v.ret, Evaluator_const_decl(scopes, Current.ident, v.ret),
               FALSE, <<>>)

ExecAssign ==
  /\ Running /\ Current.tag = "assign"
  /\ LET v == Eval(scopes, Current.exprs[1]) IN
     IF v.exc # "" THEN Step(None, v, FALSE, <<>>)
     ELSE Step(v.ret, Evaluator_assign(scopes, Current.ident, v.ret),
               FALSE, <<>>)

ExecInput ==
  /\ Running /\ Current.tag = "input"
  /\ \E user_value \in InputTexts :
       Step(StrV(user_value),
            Evaluator_input(scopes, Current.ident, user_value), FALSE, <<>>)

ExecOutput ==
  /\ Running /\ Current.tag = "output"
  /\ LET vs == [p \in DOMAIN Current.exprs |-> Eval(scopes, Current.exprs[p])]
         bad == {p \in DOMAIN vs : vs[p].exc # ""} IN
     IF bad # {}
     THEN Step(None, vs[CHOOSE p \in bad : \A q \in bad : p <= q], FALSE, <<>>)
     ELSE LET o == Evaluator_output(scopes, [p \in DOMAIN vs |-> vs[p].ret]) IN
          Step(None, o.r, o.r.exc = "", o.args)

\* the start callback: the walk is over, run() returns the Environment
Finish ==
  /\ run.status = "running" /\ run.pc > Len(run.prog)
  /\ run' = [run EXCEPT !.status = "returned"]
  /\ UNCHANGED <<scopes, pre, last, out>>

NextEval ==
  \/ (run.status = "idle" /\ EnvVarDecl(Names, SetupTypes, {None}))
  \/ (run.status = "idle" /\ EnvConstDecl(Names, SetupValues))
  \/ (run.status = "idle" /\ EnvSet(Names, SetupValues))
  \/ Run
  \/ ExecVarDecl
  \/ ExecConstDecl
  \/ ExecAssign
  \/ ExecInput
  \/ ExecOutput
  \/ Finish

SpecEval == Init /\ [][NextEval]_vars

\* ------------------------------------------------------- operator programs
\* the largest magnitude of a whole-number operand
MaxOperand == 7

\* the decimal digits of a whole number i >= 0
RECURSIVE Digits(_)
Digits(i) ==
  IF i < 10 THEN <<48 + i>> ELSE Digits(i \div 10) \o <<48 + (i % 10)>>

\* the tree of a whole-number operand: a literal, negated when below zero
IntExpr(i) ==
  IF i >= 0 THEN Leaf("INT_LITERAL", Digits(i))
  ELSE Node("neg", <<Leaf("INT_LITERAL", Digits(0 - i))>>)

\* an operand whose evaluation raises: 1 DIV 0
Failing == Node("int_div", <<IntExpr(1), IntExpr(0)>>)

Operands ==
  {IntExpr(i) : i \in (0 - MaxOperand)..MaxOperand}
  \cup {Leaf("BOOL_LITERAL", Txt_TRUE), Leaf("BOOL_LITERAL", Txt_FALSE), Failing}

Operators == {"int_div", "mod", "and_op", "or_op"}

\* OUTPUT l op r
OpStmt(op, l, r) == Stmt("output", <<>>, "", <<Node(op, <<l, r>>)>>)

OpPrograms == {<<OpStmt(op, l, r)>> : op \in Operators, l \in Operands, r \in Operands}

RunOps == Start(OpPrograms)

NextOps ==
  \/ RunOps
  \/ ExecOutput
  \/ Finish

SpecOps == Init /\ [][NextOps]_vars

\* ---------------------------------------------------- a rule with no callback
\* the rule and token names the Evaluator defines a callback for
EvaluatorCallbacks ==
  {"IDENT", "INT_LITERAL", "REAL_LITERAL", "BOOL_LITERAL", "CHAR_LITERAL",
   "STRING_LITERAL", "DATE_LITERAL", "var_decl", "const_decl", "assign",
   "input", "output_list", "output", "or_op", "and_op", "not_op", "larger",
   "smaller", "largerequal", "smallerequal", "equal", "notequal", "compare",
   "add", "sub", "mul", "div", "int_div", "mod", "neg", "atom", "literal",
   "start"}

\* a loop statement as a tree: the control variable, the start, end and
\* (when given) step expressions, and the statements of the body
ForStmt(ident, exprs, body) ==
  [tag |-> "for_loop", ident |-> ident, type |-> "", exprs |-> exprs,
   body |-> body]

\* the largest start and end value of a loop
MaxFor == 3

ForSteps == {0 - 1, 1, 2}

ForHeaders ==
  {<<IntExpr(st), IntExpr(en)>> : st \in 1..MaxFor, en \in 1..MaxFor}
  \cup {<<IntExpr(st), IntExpr(en), IntExpr(k)>> :
          st \in 1..MaxFor, en \in 1..MaxFor, k \in ForSteps}

\* FOR X <- start TO end [STEP k]: OUTPUT X
ForPrograms ==
  {<<ForStmt(Txt_X, h, <<Stmt("output", <<>>, "", <<Leaf("IDENT", Txt_X)>>)>>)>> :
     h \in ForHeaders}

\* a statement whose rule has no callback in the Evaluator: the Transformer
\* transforms its children and keeps the node as a tree
\* (Transformer.__default__).  Its expressions are evaluated here; the
\* statements of its body come next in the walk, each once.  Nothing is
\* bound and nothing is repeated.
ExecDefault ==
  /\ Running /\ Current.tag \notin EvaluatorCallbacks
  /\ LET vs == [p \in DOMAIN Current.exprs |-> Eval(scopes, Current.exprs[p])]
         bad == {p \in DOMAIN vs : vs[p].exc # ""} IN
     IF bad # {}
     THEN Step(None, vs[CHOOSE p \in bad : \A q \in bad : p <= q], FALSE, <<>>)
     ELSE Step(None, Return(scopes, None), FALSE, <<>>)

RunFor == Start(ForPrograms)

NextFor ==
  \/ (run.status = "idle" /\ EnvVarDecl(Names, {"INTEGER"}, {None, IntV(5)}))
  \/ RunFor
  \/ ExecDefault
  \/ ExecOutput
  \/ Finish

SpecFor == Init /\ [][NextFor]_vars

\* ------------------------------------------------- the matching predicate
\* _value_matches_type applied to one (value, type name) pair
MatchValues ==
  {None, IntV(5), IntV(0), IntV(-3), BoolV(TRUE), BoolV(FALSE), FloatV(5),
   FloatV(-1), StrV(<<>>), StrV(Txt_x), StrV(Txt_ab), StrV(Txt_TRUE),
   StrV(Txt_5)}

InitMatch ==
  /\ scopes = << << >> >>
  /\ pre = scopes
  /\ run = NoRun
  /\ out = <<>>
  /\ \E v \in MatchValues, t \in TypeNames :
       last = [NoCall EXCEPT !.value = v, !.type = t]

ApplyMatch ==
  /\ last.op = ""
  /\ last' = [last EXCEPT !.op = "_value_matches_type",
                          !.ret = BoolV(_value_matches_type(last.value, last.type))]
  /\ UNCHANGED <<scopes, pre, run, out>>

SpecMatch == InitMatch /\ [][ApplyMatch]_vars

\* ------------------------------------------------------------------ claims
\* the table of the type-matching rule, by the shape of the value: a whole
\* number, a fractional number, a truth value, text
TableAccepts(value, type_name) ==
  CASE type_name = "INTEGER" -> value.k = "int"
    [] type_name = "REAL" -> value.k \in {"int", "float"}
    [] type_name = "STRING" -> value.k = "str"
    [] type_name = "BOOLEAN" -> value.k = "bool"
    [] type_name = "CHAR" -> value.k = "str" /\ Len(value.s) = 1
    [] type_name = "DATE" -> value.k = "str"
    [] OTHER -> FALSE

\* the nearest scope at or outside scope i that binds name, 0 if none does
Nearest(sc, i, name) ==
  LET owners == {j \in 1..i : name \in DOMAIN sc[j]} IN
  IF owners = {} THEN 0 ELSE CHOOSE j \in owners : \A m \in owners : m <= j

IsRaise(cls, msg) == last.exc = cls /\ last.msg = msg

\* C1: the program 'declare x: INTEGER; x <- n; output x', run on an
\* Environment that does not bind x, ends without error, has written the one
\* line n and leaves x bound to n with declared type INTEGER.
Claim_C1 ==
  \A n \in Names, lit \in IntLits :
    (/\ run.status \in {"returned", "raised"}
     /\ run.prog = DeclareAssignOutput(n, lit)
     /\ n \notin DOMAIN run.env0[1])
    => (/\ run.status = "returned"
        /\ out = << <<INT_LITERAL(lit.token)>> >>
        /\ n \in DOMAIN scopes[1]
        /\ scopes[1][n] = [type |-> "INTEGER", value |-> INT_LITERAL(lit.token)])

\* C2: the matching predicate accepts a value for a declared type exactly as
\* the table says: INTEGER whole numbers only (no truth value, no fraction,
\* no text), REAL any number and nothing else, STRING text, BOOLEAN the two
\* truth values, CHAR text of length one, DATE any text.
Claim_C2 ==
  (last.op = "_value_matches_type" /\ last.type \in DeclaredTypes)
  => ((last.ret = BoolV(TRUE)) <=> TableAccepts(last.value, last.type))

\* C3: set on a resolvable variable with a value that matches its declared
\* type overwrites the binding so that get returns exactly that value; with
\* a value that does not match it raises the type mismatch and get still
\* returns the value from before the call.
Claim_C3 ==
  LET j == Nearest(pre, last.scope, last.name) IN
  (last.op = "set" /\ j # 0 /\ pre[j][last.name].type \in DeclaredTypes)
  => IF TableAccepts(last.value, pre[j][last.name].type)
     THEN /\ last.exc = ""
          /\ get(scopes, last.scope, last.name).ret = last.value
     ELSE /\ IsRaise("TypeError", "Type mismatch")
          /\ get(scopes, last.scope, last.name).ret
               = get(pre, last.scope, last.name).ret

\* the scopes both the chain before and the chain after the last call have
Kept == 1..(IF Len(pre) < Len(scopes) THEN Len(pre) ELSE Len(scopes))

\* C4 (as stated): after const_decl(c, v) every set(c, w) issued from the
\* declaring scope or from a scope nested in it raises the constant
\* reassignment error, whatever w is.
Claim_C4 ==
  (/\ last.op = "set"
   /\ \E m \in 1..last.scope :
        last.name \in DOMAIN pre[m] /\ pre[m][last.name].type = "const")
  => IsRaise("TypeError", "Cannot assign to constant")

\* C4 (amended): every set whose name resolves to a constant, that is with
\* no nearer scope binding the same name, raises the constant reassignment
\* error whatever the value, from the declaring scope or a nested one; and no
\* operation changes a constant binding of a scope that is still there.
Thm_C4 ==
  /\ LET j == Nearest(pre, last.scope, last.name) IN
     (last.op = "set" /\ j # 0 /\ pre[j][last.name].type = "const")
     => IsRaise("TypeError", "Cannot assign to constant")
  /\ \A m \in Kept : \A c \in DOMAIN pre[m] :
       pre[m][c].type = "const"
       => (c \in DOMAIN scopes[m] /\ scopes[m][c] = pre[m][c])

\* a set issued from a nested scope on a constant of an outer scope, with a
\* value of the same shape as the constant's, has raised
Witness_C4 ==
  LET j == Nearest(pre, last.scope, last.name) IN
  /\ last.op = "set" /\ j # 0 /\ j < last.scope
  /\ pre[j][last.name].type = "const"
  /\ pre[j][last.name].value.k = last.value.k
  /\ IsRaise("TypeError", "Cannot assign to constant")

\* C5: var_decl or const_decl of a name the scope it is called on already
\* binds, as a variable or as a constant, raises the duplicate declaration
\* error and leaves every binding (kind, declared type, value) as it was.
Thm_C5 ==
  (/\ last.op \in {"var_decl", "const_decl"}
   /\ last.name \in DOMAIN pre[last.scope])
  => (IsRaise("NameError", "already declared in this scope") /\ scopes = pre)

\* a constant has been redeclared as a variable of a valid type, and a
\* variable as a constant
Witness_C5 ==
  /\ last.op \in {"var_decl", "const_decl"}
  /\ last.name \in DOMAIN pre[last.scope]
  /\ last.exc = "NameError"
  /\ \/ /\ last.op = "var_decl" /\ last.type \in DeclaredTypes
        /\ pre[last.scope][last.name].type = "const"
        /\ pre[last.scope][last.name].value # last.value
     \/ /\ last.op = "const_decl"
        /\ pre[last.scope][last.name].type \in DeclaredTypes
        /\ pre[last.scope][last.name].value # last.value

\* C6: a declaration acts on the scope it is called on only, and succeeds
\* there whatever the outer scopes bind; get, get_type and set called on a
\* scope resolve to the nearest binding at or outside it and leave every
\* other binding of the chain as it was; once the innermost scope is
\* discarded every name resolves as it did from its parent.
Thm_C6 ==
  LET i == last.scope
      x == last.name
      j == Nearest(pre, i, x) IN
  /\ last.op \in {"var_decl", "const_decl"}
     => /\ Len(scopes) = Len(pre)
        /\ \A m \in 1..Len(pre) : m # i => scopes[m] = pre[m]
        /\ (/\ x \notin DOMAIN pre[i]
            /\ last.op = "var_decl" => /\ last.type \in DeclaredTypes
                                       /\ \/ last.value = None
                                          \/ TableAccepts(last.value, last.type))
           => /\ last.exc = ""
              /\ DOMAIN scopes[i] = DOMAIN pre[i] \cup {x}
              /\ scopes[i][x].value = last.value
              /\ \A y \in DOMAIN pre[i] : scopes[i][y] = pre[i][y]
  /\ (last.op \in {"get", "get_type", "set"} /\ j = 0)
     => (IsRaise("NameError", "is not declared") /\ scopes = pre)
  /\ (last.op = "get" /\ j # 0)
     => (last.exc = "" /\ last.ret = pre[j][x].value /\ scopes = pre)
  /\ (last.op = "get_type" /\ j # 0)
     => (last.exc = "" /\ last.rtype = pre[j][x].type /\ scopes = pre)
  /\ (last.op = "set" /\ j # 0)
     => /\ Len(scopes) = Len(pre)
        /\ \A m \in 1..Len(pre) :
             /\ DOMAIN scopes[m] = DOMAIN pre[m]
             /\ \A y \in DOMAIN pre[m] :
                  (m # j \/ y # x) => scopes[m][y] = pre[m][y]
        /\ scopes[j][x].type = pre[j][x].type
        /\ scopes[j][x].value = (IF last.exc = "" THEN last.value
                                 ELSE pre[j][x].value)
  /\ last.op = "discard"
     => /\ Len(scopes) = Len(pre) - 1
        /\ \A m \in 1..Len(scopes) : scopes[m] = pre[m]
        /\ \A y \in ScopeNames :
             /\ get(scopes, Len(scopes), y).exc = get(pre, Len(pre) - 1, y).exc
             /\ get(scopes, Len(scopes), y).ret = get(pre, Len(pre) - 1, y).ret
             /\ get_type(scopes, Len(scopes), y).rtype
                  = get_type(pre, Len(pre) - 1, y).rtype

\* a set called on a child scope has overwritten the child's binding of a
\* name the parent binds too, and the parent still holds another value
Witness_C6 ==
  /\ last.op = "set" /\ last.exc = "" /\ last.scope > 1
  /\ last.name \in DOMAIN pre[last.scope]
  /\ last.name \in DOMAIN pre[last.scope - 1]
  /\ scopes[last.scope][last.name].value # pre[last.scope][last.name].value
  /\ scopes[last.scope - 1][last.name].type \in DeclaredTypes
  /\ scopes[last.scope - 1][last.name].value # None
  /\ scopes[last.scope - 1][last.name].value # last.value

\* C7: var_decl of a name the scope does not bind succeeds exactly for the
\* six type names, then binds the name to that type with no value so that
\* get_type returns the type; for any other type name, the constant marker
\* included, it raises the unknown type error and binds nothing.
Claim_C7 ==
  (/\ last.op = "var_decl"
   /\ last.name \notin DOMAIN pre[last.scope]
   /\ last.value = None)
  => IF last.type \in DeclaredTypes
     THEN /\ last.exc = ""
          /\ last.name \in DOMAIN scopes[last.scope]
          /\ scopes[last.scope][last.name] = [type |-> last.type, value |-> None]
          /\ get_type(scopes, last.scope, last.name).rtype = last.type
     ELSE /\ IsRaise("ValueError", "Unsupported type")
          /\ scopes = pre

\* a statement callback has run; LastStmt is its statement
Executed == run.status # "idle" /\ (run.status = "raised" \/ run.pc > 1)
LastStmt ==
  IF run.status = "raised" THEN run.prog[run.pc] ELSE run.prog[run.pc - 1]

RECURSIVE Idents(_)
Idents(e) ==
  IF e.tag = "IDENT" THEN {e.token}
  ELSE UNION {Idents(e.kids[p]) : p \in DOMAIN e.kids}

\* name, in some spelling of its letters' case, is bound in the chain
BoundAnyCase(sc, name) ==
  \E m \in Names \cup {name} :
    Upper(m) = Upper(name) /\ Nearest(sc, Len(sc), m) # 0

\* C8: a statement whose expression holds an identifier bound nowhere in the
\* scope chain raises the undeclared identifier error, which ends the
\* statement; it yields no value.
Claim_C8 ==
  (/\ Executed
   /\ LastStmt.tag \in {"const_decl", "assign", "output"}
   /\ \E p \in DOMAIN LastStmt.exprs : \E n \in Idents(LastStmt.exprs[p]) :
        ~BoundAnyCase(pre, n))
  => (IsRaise("NameError", "is not declared") /\ run.status = "raised")

\* C9: with n1 declared and n2 a spelling of n1 in another letter case,
\* declaring n2 raises the duplicate declaration error, and an assignment to
\* n2 and an output of n2 act on the binding of n1.
Claim_C9 ==
  \A n1 \in Names, n2 \in Names :
    (/\ n1 # n2 /\ Upper(n1) = Upper(n2)
     /\ Executed
     /\ n1 \in DOMAIN pre[1] /\ n2 \notin DOMAIN pre[1])
    => /\ (LastStmt.tag \in {"var_decl", "const_decl"} /\ LastStmt.ident = n2)
          => IsRaise("NameError", "already declared in this scope")
       /\ (/\ LastStmt.tag = "assign" /\ LastStmt.ident = n2
           /\ LastStmt.exprs = <<IntLit>>
           /\ pre[1][n1].type = "INTEGER")
          => (last.exc = "" /\ scopes[1][n1].value = INT_LITERAL(Txt_5))
       /\ (LastStmt.tag = "output" /\ LastStmt.exprs = <<Leaf("IDENT", n2)>>)
          => (/\ last.exc = "" /\ out # <<>>
              /\ out[Len(out)] = <<pre[1][n1].value>>)

\* text is a value of the declared type, as an Input statement reads it
AllDigits(t) == t # <<>> /\ \A p \in DOMAIN t : t[p] \in 48..57
Parses(t, type_name) ==
  CASE type_name = "INTEGER" -> AllDigits(t)
    [] type_name = "REAL" -> AllDigits(t)
    [] type_name = "BOOLEAN" -> Upper(t) \in {Txt_TRUE, Txt_FALSE}
    [] type_name = "CHAR" -> Len(t) = 1
    [] OTHER -> TRUE

\* C10: an Input statement whose line is no value of the target variable's
\* declared type reports the failure through the output collaborator, lets
\* no error out of the statement, leaves the variable as it was, and the
\* run goes on to the next statement.
Claim_C10 ==
  LET j == Nearest(pre, Len(pre), last.name) IN
  (/\ Executed /\ LastStmt.tag = "input"
   /\ j # 0 /\ pre[j][last.name].type \in DeclaredTypes
   /\ ~Parses(last.value.s, pre[j][last.name].type))
  => (/\ last.exc = "" /\ run.status # "raised"
      /\ scopes = pre
      /\ out # <<>>)

\* the value a line of input stands for under the declared type
Converted(t, type_name) ==
  CASE type_name = "INTEGER" -> IntV(ParseInt(t))
    [] type_name = "REAL" -> FloatV(2 * ParseInt(t))
    [] type_name = "BOOLEAN" -> BoolV(Upper(t) = Txt_TRUE)
    [] OTHER -> StrV(t)

\* C11: an Input statement whose line is a value of the target variable's
\* declared type stores the line converted to that type (a whole number, a
\* number, a truth value, or the text itself), and a lookup of the target
\* then returns the converted value.
Claim_C11 ==
  LET j == Nearest(pre, Len(pre), last.name)
      type_name == pre[j][last.name].type IN
  (/\ Executed /\ LastStmt.tag = "input"
   /\ j # 0 /\ type_name \in DeclaredTypes
   /\ Parses(last.value.s, type_name))
  => (/\ last.exc = ""
      /\ get(scopes, Len(scopes), last.name).exc = ""
      /\ get(scopes, Len(scopes), last.name).ret
           = Converted(last.value.s, type_name))

\* C12: a text is never read again as something else: an Output of a text
\* literal writes exactly the decoded text, an Output of a bound identifier
\* (bare or inside an atom) writes exactly the value bound to it, also when
\* the text spells TRUE or FALSE or the name of a bound variable; and
\* resolving a resolved value gives the same value.
Claim_C12 ==
  /\ (Executed /\ LastStmt.tag = "output")
     => LET e == LastStmt.exprs[1] IN
        /\ e.tag = "STRING_LITERAL"
           => (/\ last.exc = "" /\ out # <<>>
               /\ out[Len(out)] = <<STRING_LITERAL(e.token)>>)
        /\ \A n \in Names :
             (/\ e \in {Leaf("IDENT", n), Node("atom", <<Leaf("IDENT", n)>>)}
              /\ Upper(n) = n /\ n \in DOMAIN pre[1])
             => (/\ last.exc = "" /\ out # <<>>
                 /\ out[Len(out)] = <<pre[1][n].value>>)
  /\ \A n \in Names :
       LET once == get_value(scopes, StrV(n)) IN
       once.exc = ""
       => (/\ get_value(scopes, once.ret).exc = ""
           /\ get_value(scopes, once.ret).ret = once.ret)

\* the outcome of evaluating the right-hand side of the last statement in
\* the Environment the statement started with
RhsOutcome ==
  LET v == Eval(pre, LastStmt.exprs[1]) IN
  IF v.exc # "" THEN v ELSE get_value(pre, v.ret)

\* C13: when the evaluation of the right-hand side of an Assignment raises,
\* the statement ends with that error (the target is not looked at) and
\* the Environment after the statement equals the Environment before it.
Thm_C13 ==
  (Executed /\ LastStmt.tag = "assign" /\ RhsOutcome.exc # "")
  => (/\ scopes = pre
      /\ run.status = "raised"
      /\ last.exc = RhsOutcome.exc /\ last.msg = RhsOutcome.msg)

\* an Assignment to a declared text variable whose right-hand side raised
Witness_C13 ==
  /\ Executed /\ LastStmt.tag = "assign" /\ RhsOutcome.exc # ""
  /\ LastStmt.ident \in DOMAIN pre[1]
  /\ pre[1][LastStmt.ident].type = "STRING"
  /\ LastStmt.exprs[1].tag = "IDENT"

\* q is the whole number a / b rounded toward negative infinity
IsFloorQuotient(q, a, b) ==
  IF b > 0 THEN q * b <= a /\ (q + 1) * b > a
  ELSE q * b >= a /\ (q + 1) * b < a

OperandRange == (0 - MaxOperand)..MaxOperand

\* C14: for whole numbers a and b # 0, a DIV b is a / b rounded toward
\* negative infinity (for b > 0 the largest q with q*b <= a), a MOD b is
\* a - b*(a DIV b), and for b > 0 a MOD b lies in 0..b-1, also for a < 0.
Thm_C14 ==
  \A a \in OperandRange, b \in OperandRange \ {0} :
    /\ (Executed /\ LastStmt = OpStmt("int_div", IntExpr(a), IntExpr(b)))
       => (/\ last.exc = "" /\ Len(out) = 1 /\ Len(out[1]) = 1
           /\ out[1][1].k = "int"
           /\ IsFloorQuotient(out[1][1].n, a, b))
    /\ (Executed /\ LastStmt = OpStmt("mod", IntExpr(a), IntExpr(b)))
       => (/\ last.exc = "" /\ Len(out) = 1 /\ Len(out[1]) = 1
           /\ out[1][1].k = "int"
           /\ \E q \in OperandRange :
                IsFloorQuotient(q, a, b) /\ out[1][1].n = a - b * q
           /\ b > 0 => out[1][1].n \in 0..(b - 1))

\* -7 MOD 2 has been written, and it is 1
Witness_C14 ==
  /\ Executed /\ LastStmt = OpStmt("mod", IntExpr(0 - 7), IntExpr(2))
  /\ out = <<<<IntV(1)>>>>

\* C15: AND and OR evaluate both operands whatever the left one is (an
\* error of the right operand is raised even when the left operand decides
\* the result), and the value they give is one of the two truth values for
\* every pair of operand values they accept.
Claim_C15 ==
  (Executed /\ LastStmt.tag = "output"
   /\ LastStmt.exprs[1].tag \in {"and_op", "or_op"})
  => LET l == Eval(pre, LastStmt.exprs[1].kids[1])
         r == Eval(pre, LastStmt.exprs[1].kids[2]) IN
     /\ (l.exc = "" /\ r.exc # "")
        => (run.status = "raised" /\ last.exc = r.exc)
     /\ (l.exc = "" /\ r.exc = "")
        => (/\ last.exc = "" /\ Len(out) = 1 /\ Len(out[1]) = 1
            /\ out[1][1] \in {BoolV(TRUE), BoolV(FALSE)})

\* the number of times a loop from st to en by k runs its body
Iterations(st, en, k) ==
  LET n == FloorDiv(en - st, k) + 1 IN IF n > 0 THEN n ELSE 0

\* C16: a loop FOR X <- st TO en [STEP k] (k # 0, 1 when not given) whose
\* body is OUTPUT X runs the body max(0, floor((en - st) / k) + 1) times
\* with X = st, st+k, st+2k, ... in order, then ends, and afterwards X is
\* bound to the first value past en.
Claim_C16 ==
  \A st \in 1..MaxFor, en \in 1..MaxFor, k \in ForSteps :
    (/\ run.status \in {"returned", "raised"}
     /\ run.prog[1].tag = "for_loop"
     /\ run.prog[1].exprs \in {<<IntExpr(st), IntExpr(en), IntExpr(k)>>}
                            \cup (IF k = 1 THEN {<<IntExpr(st), IntExpr(en)>>}
                                  ELSE {}))
    => LET n == Iterations(st, en, k) IN
       /\ run.status = "returned"
       /\ out = [i \in 1..n |-> <<IntV(st + (i - 1) * k)>>]
       /\ get(scopes, Len(scopes), Txt_X).exc = ""
       /\ get(scopes, Len(scopes), Txt_X).ret = IntV(st + n * k)

\* C17: whatever var_decl, const_decl and set calls were made, and whether
\* they returned or raised, every binding whose stored type is one of the six
\* declared type names holds no value or a value the matching predicate
\* accepts for that type, and no call changes the stored type of a binding.
Thm_C17 ==
  /\ \A m \in DOMAIN scopes : \A c \in DOMAIN scopes[m] :
       scopes[m][c].type \in DeclaredTypes
       => \/ scopes[m][c].value = None
          \/ _value_matches_type(scopes[m][c].value, scopes[m][c].type)
  /\ \A m \in Kept : \A c \in DOMAIN pre[m] :
       c \in DOMAIN scopes[m] /\ scopes[m][c].type = pre[m][c].type

\* a set has put a new value into a variable of a declared type that held
\* another value
Witness_C17 ==
  /\ last.op = "set" /\ last.exc = ""
  /\ scopes[1][last.name].type \in DeclaredTypes
  /\ pre[1][last.name].value \notin {None, last.value}
  /\ scopes[1][last.name].value = last.value

\* C18: a call of var_decl, const_decl, set, get or get_type that raises
\* leaves every scope of the chain as it was before the call, and get,
\* get_type and the membership test never change a scope.
Thm_C18 ==
  /\ (/\ last.op \in {"var_decl", "const_decl", "set", "get", "get_type"}
      /\ last.exc # "")
     => scopes = pre
  /\ last.op \in {"get", "get_type", "__contains__"} => scopes = pre

\* a set issued from a nested scope on a variable of an outer scope has
\* raised for a value that does not match the type
Witness_C18 ==
  LET j == Nearest(pre, last.scope, last.name) IN
  /\ last.op = "set" /\ j # 0 /\ j < last.scope
  /\ IsRaise("TypeError", "Type mismatch")
  /\ pre[j][last.name].value # None

====
